---------------------------- MODULE Spec2Model ----------------------------
(***************************************************************************)
(* Model of pkg/golinters/revive.go: the revive linter adapter.            *)
(*                                                                         *)
(*   - configuration: createConfigMap, safeTomlSlice, the TOML round trip, *)
(*     normalizeConfig, defaultConfig, getReviveConfig;                    *)
(*   - conversion: reviveToIssue;                                          *)
(*   - one invocation of analyzer.Run / runRevive with its formatting      *)
(*     goroutine and its two unbuffered channels;                          *)
(*   - several invocations of analyzer.Run appending to resIssues under mu.*)
(*                                                                         *)
(* Conventions.  A confidence is a number of tenths (8 stands for 0.8).    *)
(* A Go nil slice is the empty sequence.  A Go map is a record             *)
(* [isNil, m] where m is a function on the keys.  A rule is named by the   *)
(* identifier of its type in the rule catalogue (r.Name() is injective).   *)
(***************************************************************************)
EXTENDS Integers, Sequences, FiniteSets, TLC

VARIABLES
    \* getReviveConfig applied to a Settings value
    settings, confRes, cfgPc,
    \* normalizeConfig applied repeatedly to a lint.Config
    cfg, prevCfg, passes,
    \* safeTomlSlice applied to an argument list
    args, argsRes, argsPc,
    \* reviveToIssue applied to a jsonObject
    object, issue, issuePc,
    \* NewRevive: the state shared by the invocations of analyzer.Run
    mu, resIssues,
    \* one invocation of analyzer.Run and runRevive: the main goroutine
    pc, runSettings, conf, failures, idx, f, err, results, ret, runErr,
    \* ... its channels and its formatting goroutine
    formatClosed, fpc, received, output, logged,
    \* ... and what happened so far: the failures sent on formatChan and the
    \* stages that reported an error
    sent, stageErrs,
    \* concurrent invocations of analyzer.Run: where each one is, what its
    \* runRevive returned, the slice its append has read, and the list the
    \* issues reporter returned
    apc, runIssues, appendRead, reported

cfgVars   == <<settings, confRes, cfgPc>>
normVars  == <<cfg, prevCfg, passes>>
argVars   == <<args, argsRes, argsPc>>
issueVars == <<object, issue, issuePc>>

sharedVars == <<mu, resIssues>>
runVars   == <<pc, runSettings, conf, failures, idx, f, err, results, ret,
               runErr, formatClosed, fpc, received, output, logged, sent,
               stageErrs>>

collVars  == <<apc, runIssues, appendRead, reported>>

vars == <<cfgVars, normVars, argVars, issueVars, sharedVars, runVars,
          collVars>>

---------------------------------------------------------------------------
(* Bounds of the model *)

\* longest list of rule overrides in a Settings value
MaxRules == 2
\* longest argument list handed to safeTomlSlice
MaxArgs == 3
\* number of times normalizeConfig is applied in a row
MaxPasses == 2
\* largest line number of a failure position
MaxLine == 3
\* longest stream of failures the engine produces for one package
MaxFailures == 2
\* number of concurrent invocations of analyzer.Run
NumInvocations == 3
\* largest number of issues one invocation returns
MaxIssues == 2

---------------------------------------------------------------------------
(* The rule catalogues *)

defaultRules ==
    << "VarDeclarationsRule", "PackageCommentsRule", "DotImportsRule",
       "BlankImportsRule", "ExportedRule", "VarNamingRule",
       "IndentErrorFlowRule", "RangeRule", "ErrorfRule", "ErrorNamingRule",
       "ErrorStringsRule", "ReceiverNamingRule", "IncrementDecrementRule",
       "ErrorReturnRule", "UnexportedReturnRule", "TimeNamingRule",
       "ContextKeysType", "ContextAsArgumentRule", "EmptyBlockRule",
       "SuperfluousElseRule", "UnusedParamRule", "UnreachableCodeRule",
       "RedefinesBuiltinIDRule" >>

allRules ==
    << "ArgumentsLimitRule", "CyclomaticRule", "FileHeaderRule",
       "ConfusingNamingRule", "GetReturnRule", "ModifiesParamRule",
       "ConfusingResultsRule", "DeepExitRule", "AddConstantRule",
       "FlagParamRule", "UnnecessaryStmtRule", "StructTagRule",
       "ModifiesValRecRule", "ConstantLogicalExprRule", "BoolLiteralRule",
       "ImportsBlacklistRule", "FunctionResultsLimitRule",
       "MaxPublicStructsRule", "RangeValInClosureRule", "RangeValAddress",
       "WaitGroupByValueRule", "AtomicRule", "EmptyLinesRule",
       "LineLengthLimitRule", "CallToGCRule", "DuplicatedImportsRule",
       "ImportShadowingRule", "BareReturnRule", "UnusedReceiverRule",
       "UnhandledErrorRule", "CognitiveComplexityRule", "StringOfIntRule",
       "StringFormatRule", "EarlyReturnRule", "UnconditionalRecursionRule",
       "IdenticalBranchesRule", "DeferRule", "UnexportedNamingRule",
       "FunctionLength", "NestedStructs", "UselessBreak",
       "UncheckedTypeAssertionRule", "TimeEqualRule", "BannedCharsRule",
       "OptimizeOperandsOrderRule", "UseAnyRule", "DataRaceRule",
       "CommentSpacingsRule", "IfReturnRule", "RedundantImportAlias",
       "ImportAliasNamingRule", "EnforceMapStyleRule",
       "EnforceRepeatedArgTypeStyleRule", "EnforceSliceStyleRule" >>
    \o defaultRules

\* confidence in tenths: 0.8
defaultConfidence == 8

SeverityWarning == "warning"
SeverityError   == "error"

Range(s) == {s[i] : i \in DOMAIN s}

EmptyMap == [isNil |-> FALSE, m |-> <<>>]
NilMap   == [isNil |-> TRUE,  m |-> <<>>]

\* lint.RuleConfig{} and lint.DirectiveConfig{}
EmptyRuleConfig == [Severity |-> "", Arguments |-> <<>>, Disabled |-> FALSE]

\* m[k] = v on a Go map that is not nil
MapSet(mp, k, v) ==
    [isNil |-> FALSE,
     m |-> [n \in (DOMAIN mp.m) \cup {k} |-> IF n = k THEN v ELSE mp.m[n]]]

MapLen(mp) == Cardinality(DOMAIN mp.m)

---------------------------------------------------------------------------
(* safeTomlSlice *)

\* An argument is a scalar or a map.  A map[any]any has kind "anymap", a
\* map[string]any has kind "strmap"; entries is the set of its <<key, value>>
\* pairs and a key is [t |-> its dynamic type, k |-> its text].
Scalar(v)      == [kind |-> "scalar", v |-> v, entries |-> {}]
AnyMap(es)     == [kind |-> "anymap", v |-> "", entries |-> es]
StrMap(es)     == [kind |-> "strmap", v |-> "", entries |-> es]
StrKey(k)      == [t |-> "string", k |-> k]
IntKey(k)      == [t |-> "int", k |-> k]

\* elt.(map[any]any) followed by item[k.(string)] = v for every entry:
\* either assertion panics when the dynamic type is another one
CoercePanics(elt) ==
    \/ elt.kind # "anymap"
    \/ \E e \in elt.entries : e[1].t # "string"

CoerceItem(elt) == StrMap(elt.entries)

\* The result is [panic, val]: panic is TRUE when a type assertion failed
\* (the function has no error result), val is the returned slice otherwise.
safeTomlSlice(r) ==
    IF Len(r) = 0
    THEN [panic |-> FALSE, val |-> <<>>]
    ELSE IF r[1].kind # "anymap"
    THEN [panic |-> FALSE, val |-> r]
    ELSE IF \E i \in 1..Len(r) : CoercePanics(r[i])
    THEN [panic |-> TRUE, val |-> <<>>]
    ELSE [panic |-> FALSE, val |-> [i \in 1..Len(r) |-> CoerceItem(r[i])]]

---------------------------------------------------------------------------
(* createConfigMap and the TOML round trip *)

RECURSIVE rawDirectivesOf(_)
\* the loop over cfg.Directives: a later directive of the same name wins
rawDirectivesOf(ds) ==
    IF ds = <<>> THEN EmptyMap
    ELSE LET d == ds[Len(ds)]
         IN  MapSet(rawDirectivesOf(SubSeq(ds, 1, Len(ds) - 1)),
                    d.Name, [severity |-> d.Severity])

RECURSIVE rawRulesOf(_)
\* the loop over cfg.Rules: a later override of the same name wins
rawRulesOf(rs) ==
    IF rs = <<>> THEN EmptyMap
    ELSE LET s == rs[Len(rs)]
         IN  MapSet(rawRulesOf(SubSeq(rs, 1, Len(rs) - 1)),
                    s.Name,
                    [severity  |-> s.Severity,
                     arguments |-> safeTomlSlice(s.Arguments).val,
                     disabled  |-> s.Disabled])

\* a type assertion of safeTomlSlice fails for one of the rule overrides
createConfigMapPanics(c) ==
    \E i \in 1..Len(c.Rules) : safeTomlSlice(c.Rules[i].Arguments).panic

\* rawRoot; the keys "directive" and "rule" are set only for non-empty tables
createConfigMap(c) ==
    [ignoreGeneratedHeader |-> c.IgnoreGeneratedHeader,
     confidence            |-> c.Confidence,
     severity              |-> c.Severity,
     errorCode             |-> c.ErrorCode,
     warningCode           |-> c.WarningCode,
     enableAllRules        |-> c.EnableAllRules,
     hasDirective          |-> MapLen(rawDirectivesOf(c.Directives)) > 0,
     directive             |-> rawDirectivesOf(c.Directives).m,
     hasRule               |-> MapLen(rawRulesOf(c.Rules)) > 0,
     rule                  |-> rawRulesOf(c.Rules).m]

\* toml.Encoder.Encode refuses a map whose key type is not string: a
\* map[any]any that safeTomlSlice left in an argument list
tomlEncodeFails(raw) ==
    raw.hasRule /\ \E n \in DOMAIN raw.rule :
        \E i \in 1..Len(raw.rule[n].arguments) :
            raw.rule[n].arguments[i].kind = "anymap"

\* The decoded lint.Config.  A table that was not written decodes to a nil
\* map, a written one to a map of RuleConfig / DirectiveConfig values; a nil
\* "arguments" is not written and decodes to a nil slice.
tomlRoundTrip(raw) ==
    [IgnoreGeneratedHeader |-> raw.ignoreGeneratedHeader,
     Confidence            |-> raw.confidence,
     Severity              |-> raw.severity,
     EnableAllRules        |-> raw.enableAllRules,
     ErrorCode             |-> raw.errorCode,
     WarningCode           |-> raw.warningCode,
     Rules      |-> IF raw.hasRule
                    THEN [isNil |-> FALSE,
                          m |-> [n \in DOMAIN raw.rule |->
                                   [Severity  |-> raw.rule[n].severity,
                                    Arguments |-> raw.rule[n].arguments,
                                    Disabled  |-> raw.rule[n].disabled]]]
                    ELSE NilMap,
     Directives |-> IF raw.hasDirective
                    THEN [isNil |-> FALSE,
                          m |-> [n \in DOMAIN raw.directive |->
                                   [Severity |-> raw.directive[n].severity]]]
                    ELSE NilMap]

---------------------------------------------------------------------------
(* normalizeConfig and defaultConfig *)

\* the loop over allRules: a rule already in the map is left as it is, the
\* others are added with lint.RuleConfig{}
addAllRules(rules, names) ==
    [isNil |-> FALSE,
     m |-> [ruleName \in (DOMAIN rules.m) \cup Range(names) |->
              LET alreadyInConf == ruleName \in DOMAIN rules.m
              IN  IF alreadyInConf THEN rules.m[ruleName]
                  ELSE EmptyRuleConfig]]

\* for k, v := range m: an empty severity becomes the global one; ranging
\* over a nil map does nothing and leaves it nil
inheritSeverity(mp, severity) ==
    [isNil |-> mp.isNil,
     m |-> [k \in DOMAIN mp.m |->
              IF mp.m[k].Severity = ""
              THEN [mp.m[k] EXCEPT !.Severity = severity]
              ELSE mp.m[k]]]

\* a slip of normalizeConfig: severities are inherited before the rules of
\* the catalogue are added
normalizeConfigInheritFirst(c) ==
    LET c1 == [c  EXCEPT !.Confidence =
                     IF c.Confidence = 0 THEN defaultConfidence ELSE @]
        c2 == [c1 EXCEPT !.Severity =
                     IF c1.Severity = "" THEN SeverityWarning ELSE @]
        c3 == [c2 EXCEPT !.Rules      = inheritSeverity(@, c2.Severity),
                         !.Directives = inheritSeverity(@, c2.Severity)]
        c4 == [c3 EXCEPT !.Rules = IF MapLen(@) = 0 THEN EmptyMap ELSE @]
    IN  [c4 EXCEPT !.Rules = IF c4.EnableAllRules
                             THEN addAllRules(@, allRules) ELSE @]

\* a slip of normalizeConfig: the expansion overwrites the rules already set
normalizeConfigOverwrite(c) ==
    LET c1 == [c  EXCEPT !.Confidence =
                     IF c.Confidence = 0 THEN defaultConfidence ELSE @]
        c2 == [c1 EXCEPT !.Severity =
                     IF c1.Severity = "" THEN SeverityWarning ELSE @]
        c3 == [c2 EXCEPT !.Rules = IF MapLen(@) = 0 THEN EmptyMap ELSE @]
        c4 == [c3 EXCEPT !.Rules =
                     IF c3.EnableAllRules
                     THEN [isNil |-> FALSE,
                           m |-> [n \in (DOMAIN c3.Rules.m) \cup Range(allRules)
                                    |-> IF n \in Range(allRules)
                                        THEN EmptyRuleConfig
                                        ELSE c3.Rules.m[n]]]
                     ELSE @]
    IN  [c4 EXCEPT !.Rules      = inheritSeverity(@, c4.Severity),
                   !.Directives = inheritSeverity(@, c4.Severity)]

normalizeConfig(c) ==
    LET c1 == [c  EXCEPT !.Confidence =
                     IF c.Confidence = 0 THEN defaultConfidence ELSE @]
        c2 == [c1 EXCEPT !.Severity =
                     IF c1.Severity = "" THEN SeverityWarning ELSE @]
        c3 == [c2 EXCEPT !.Rules = IF MapLen(@) = 0 THEN EmptyMap ELSE @]
        c4 == [c3 EXCEPT !.Rules = IF c3.EnableAllRules
                                   THEN addAllRules(@, allRules) ELSE @]
        severity == c4.Severity
    IN  IF severity # ""
        THEN [c4 EXCEPT !.Rules      = inheritSeverity(@, severity),
                        !.Directives = inheritSeverity(@, severity)]
        ELSE c4

\* the loop over defaultRules
defaultRuleMap(names) ==
    [isNil |-> FALSE, m |-> [n \in Range(names) |-> EmptyRuleConfig]]

\* lint.Config{Confidence, Severity, Rules}: every other field is zero
defaultConfig ==
    [IgnoreGeneratedHeader |-> FALSE,
     Confidence            |-> defaultConfidence,
     Severity              |-> SeverityWarning,
     EnableAllRules        |-> FALSE,
     ErrorCode             |-> 0,
     WarningCode           |-> 0,
     Rules                 |-> defaultRuleMap(defaultRules),
     Directives            |-> NilMap]

\* config.ReviveSettings{}
ZeroSettings ==
    [MaxOpenFiles          |-> 0,
     IgnoreGeneratedHeader |-> FALSE,
     Confidence            |-> 0,
     Severity              |-> "",
     EnableAllRules        |-> FALSE,
     Rules                 |-> <<>>,
     ErrorCode             |-> 0,
     WarningCode           |-> 0,
     Directives            |-> <<>>]

\* The result is [status, conf]: "ok" with the configuration, "error" (the
\* encoder's error is returned) or "panic" (a type assertion failed in
\* createConfigMap).
getReviveConfigResult(status, c) == [status |-> status, conf |-> c]

\* a slip of getReviveConfig: the settings go through the TOML round trip
\* even when they are the zero value
getReviveConfigNoDefault(s) ==
    IF createConfigMapPanics(s)
    THEN getReviveConfigResult("panic", defaultConfig)
    ELSE IF tomlEncodeFails(createConfigMap(s))
    THEN getReviveConfigResult("error", defaultConfig)
    ELSE getReviveConfigResult("ok",
             normalizeConfig(tomlRoundTrip(createConfigMap(s))))

getReviveConfig(s) ==
    IF s = ZeroSettings
    THEN getReviveConfigResult("ok", normalizeConfig(defaultConfig))
    ELSE IF createConfigMapPanics(s)
    THEN getReviveConfigResult("panic", defaultConfig)
    ELSE IF tomlEncodeFails(createConfigMap(s))
    THEN getReviveConfigResult("error", defaultConfig)
    ELSE getReviveConfigResult("ok",
             normalizeConfig(tomlRoundTrip(createConfigMap(s))))

---------------------------------------------------------------------------
(* reviveToIssue *)

reviveName == "revive"

\* (&rule.ExportedRule{}).Name()
ExportedRuleName == "ExportedRule"

\* a slip of reviveToIssue: the range of every rule ends at the end line
reviveToIssueNoCollapse(obj) ==
    [Severity   |-> obj.Severity,
     Text       |-> <<obj.RuleName, ": ", obj.Failure>>,
     Pos        |-> [Filename |-> obj.Position.Start.Filename,
                     Line     |-> obj.Position.Start.Line,
                     Offset   |-> obj.Position.Start.Offset,
                     Column   |-> obj.Position.Start.Column],
     LineRange  |-> [From |-> obj.Position.Start.Line,
                     To   |-> obj.Position.End.Line],
     FromLinter |-> reviveName]

reviveToIssue(obj) ==
    LET lineRangeTo == IF obj.RuleName = ExportedRuleName
                       THEN obj.Position.Start.Line
                       ELSE obj.Position.End.Line
    IN  [Severity   |-> obj.Severity,
         Text       |-> <<obj.RuleName, ": ", obj.Failure>>,
         Pos        |-> [Filename |-> obj.Position.Start.Filename,
                         Line     |-> obj.Position.Start.Line,
                         Offset   |-> obj.Position.Start.Offset,
                         Column   |-> obj.Position.Start.Column],
         LineRange  |-> [From |-> obj.Position.Start.Line,
                         To   |-> lineRangeTo],
         FromLinter |-> reviveName]

---------------------------------------------------------------------------
(* Inputs *)

RECURSIVE SeqsUpTo(_, _)
\* the sequences over S of length at most n
SeqsUpTo(S, n) ==
    IF n = 0 THEN {<<>>}
    ELSE LET shorter == SeqsUpTo(S, n - 1)
         IN  shorter \cup {Append(q, x) : q \in shorter, x \in S}

ArgElems ==
    { Scalar("a"), Scalar("b"),
      AnyMap({}),
      AnyMap({<<StrKey("k1"), "v">>}),
      AnyMap({<<StrKey("k1"), "v">>, <<StrKey("k2"), "w">>}),
      AnyMap({<<IntKey("1"), "v">>}),
      AnyMap({<<StrKey("k1"), "v">>, <<IntKey("1"), "w">>}) }

ArgLists == SeqsUpTo(ArgElems, MaxArgs)

\* severity, arguments and disabled flag of a rule override
OverrideShapes ==
    { [Severity |-> "", Arguments |-> <<>>, Disabled |-> FALSE],
      [Severity |-> SeverityError, Arguments |-> <<Scalar("a")>>,
       Disabled |-> TRUE],
      [Severity |-> SeverityError,
       Arguments |-> <<AnyMap({<<StrKey("k1"), "v">>})>>, Disabled |-> FALSE],
      [Severity |-> "",
       Arguments |-> <<AnyMap({<<IntKey("1"), "v">>})>>, Disabled |-> FALSE],
      [Severity |-> "",
       Arguments |-> <<Scalar("a"), AnyMap({<<StrKey("k1"), "v">>})>>,
       Disabled |-> FALSE] }

\* a default rule, a rule of the full catalogue only, a name of no rule
OverrideNames == {"ExportedRule", "CyclomaticRule", "no-such-rule"}

RuleOverrides ==
    { [Name |-> n, Severity |-> o.Severity, Arguments |-> o.Arguments,
       Disabled |-> o.Disabled] : n \in OverrideNames, o \in OverrideShapes }

DirectiveLists ==
    { <<>>,
      << [Name |-> "specify-disable-reason", Severity |-> ""] >>,
      << [Name |-> "specify-disable-reason", Severity |-> SeverityError] >> }

SettingsSet ==
    { [MaxOpenFiles          |-> 0,
       IgnoreGeneratedHeader |-> FALSE,
       Confidence            |-> c,
       Severity              |-> s,
       EnableAllRules        |-> e,
       Rules                 |-> rs,
       ErrorCode             |-> 0,
       WarningCode           |-> 0,
       Directives            |-> ds] :
      c \in {0, 5}, s \in {"", SeverityError}, e \in BOOLEAN,
      rs \in SeqsUpTo(RuleOverrides, MaxRules), ds \in DirectiveLists }

\* the maps of a lint.Config before normalizeConfig: nil, empty or not
RawRuleConfigs ==
    { [Severity |-> "", Arguments |-> <<>>, Disabled |-> FALSE],
      [Severity |-> SeverityError, Arguments |-> <<>>, Disabled |-> TRUE],
      [Severity |-> "", Arguments |-> <<Scalar("a")>>, Disabled |-> FALSE] }

RawRuleMaps ==
    {NilMap} \cup
    { [isNil |-> FALSE, m |-> g] :
        g \in UNION { [D -> RawRuleConfigs] : D \in SUBSET OverrideNames } }

RawDirectiveMaps ==
    {NilMap} \cup
    { [isNil |-> FALSE, m |-> g] :
        g \in UNION { [D -> {[Severity |-> ""], [Severity |-> SeverityError]}] :
                      D \in SUBSET {"specify-disable-reason"} } }

RawConfigs ==
    { [IgnoreGeneratedHeader |-> FALSE,
       Confidence            |-> c,
       Severity              |-> s,
       EnableAllRules        |-> e,
       ErrorCode             |-> 0,
       WarningCode           |-> 0,
       Rules                 |-> rm,
       Directives            |-> dm] :
      c \in {0, 5}, s \in {"", SeverityError}, e \in BOOLEAN,
      rm \in RawRuleMaps, dm \in RawDirectiveMaps }

Positions ==
    [Filename : {"a.go"}, Line : 1..MaxLine, Column : {1, 7},
     Offset : {0, 40}]

JsonObjects ==
    { [Severity |-> sv, RuleName |-> rn, Failure |-> "msg", Confidence |-> 10,
       Position |-> [Start |-> p, End |-> q]] :
      sv \in {SeverityWarning, SeverityError},
      rn \in {"ExportedRule", "VarNamingRule"},
      p \in Positions, q \in Positions }

NoIssue == reviveToIssue(CHOOSE o \in JsonObjects : TRUE)

---------------------------------------------------------------------------
(* The parts at rest: a specification leaves the other parts as they are *)

IdleConfig ==
    /\ settings = ZeroSettings
    /\ confRes = getReviveConfigResult("none", defaultConfig)
    /\ cfgPc = "idle"

IdleNormalize ==
    /\ cfg = defaultConfig
    /\ prevCfg = defaultConfig
    /\ passes = 0

IdleArgs ==
    /\ args = <<>>
    /\ argsRes = [panic |-> FALSE, val |-> <<>>]
    /\ argsPc = "idle"

IdleIssue ==
    /\ object = CHOOSE o \in JsonObjects : TRUE
    /\ issue = NoIssue
    /\ issuePc = "idle"

NoFailure ==
    [RuleName |-> "", Confidence |-> 0, Failure |-> "",
     Position |-> [Start |-> CHOOSE p \in Positions : TRUE,
                   End   |-> CHOOSE p \in Positions : TRUE]]

\* the empty string, which is no JSON document
EmptyOutput == [kind |-> "empty", items |-> <<>>]

NoResult == [issues |-> <<>>, err |-> ""]

IdleShared ==
    /\ mu = "unlocked"
    /\ resIssues = <<>>

IdleRun ==
    /\ pc = "idle"
    /\ runSettings = ZeroSettings
    /\ conf = defaultConfig
    /\ failures = <<>>
    /\ idx = 0
    /\ f = NoFailure
    /\ err = ""
    /\ results = <<>>
    /\ ret = NoResult
    /\ runErr = ""
    /\ formatClosed = FALSE
    /\ fpc = "none"
    /\ received = <<>>
    /\ output = EmptyOutput
    /\ logged = <<>>
    /\ sent = <<>>
    /\ stageErrs = {}

Invocations == 1..NumInvocations

IdleCollect ==
    /\ apc = [i \in Invocations |-> "idle"]
    /\ runIssues = [i \in Invocations |-> <<>>]
    /\ appendRead = [i \in Invocations |-> <<>>]
    /\ reported = <<>>

---------------------------------------------------------------------------
(* getReviveConfig applied to a Settings value *)

InitConfig ==
    /\ settings \in SettingsSet
    /\ confRes = getReviveConfigResult("none", defaultConfig)
    /\ cfgPc = "start"
    /\ IdleNormalize /\ IdleArgs /\ IdleIssue /\ IdleShared /\ IdleRun /\ IdleCollect

GetReviveConfig ==
    /\ cfgPc = "start"
    /\ confRes' = getReviveConfig(settings)
    /\ cfgPc' = "done"
    /\ UNCHANGED <<settings, normVars, argVars, issueVars, sharedVars, runVars, collVars>>

NextConfig == GetReviveConfig

SpecConfig == InitConfig /\ [][NextConfig]_vars

---------------------------------------------------------------------------
(* normalizeConfig applied again and again to a lint.Config *)

InitNormalize ==
    /\ cfg \in RawConfigs
    /\ prevCfg = cfg
    /\ passes = 0
    /\ IdleConfig /\ IdleArgs /\ IdleIssue /\ IdleShared /\ IdleRun /\ IdleCollect

NormalizeConfig ==
    /\ passes < MaxPasses
    /\ prevCfg' = cfg
    /\ cfg' = normalizeConfig(cfg)
    /\ passes' = passes + 1
    /\ UNCHANGED <<cfgVars, argVars, issueVars, sharedVars, runVars, collVars>>

NextNormalize == NormalizeConfig

SpecNormalize == InitNormalize /\ [][NextNormalize]_vars

---------------------------------------------------------------------------
(* safeTomlSlice applied to an argument list *)

InitArgs ==
    /\ args \in ArgLists
    /\ argsRes = [panic |-> FALSE, val |-> <<>>]
    /\ argsPc = "start"
    /\ IdleConfig /\ IdleNormalize /\ IdleIssue /\ IdleShared /\ IdleRun /\ IdleCollect

SafeTomlSlice ==
    /\ argsPc = "start"
    /\ argsRes' = safeTomlSlice(args)
    /\ argsPc' = IF safeTomlSlice(args).panic THEN "panicked" ELSE "returned"
    /\ UNCHANGED <<args, cfgVars, normVars, issueVars, sharedVars, runVars, collVars>>

NextArgs == SafeTomlSlice

SpecArgs == InitArgs /\ [][NextArgs]_vars

---------------------------------------------------------------------------
(* reviveToIssue applied to a jsonObject *)

InitIssue ==
    /\ object \in JsonObjects
    /\ issue = NoIssue
    /\ issuePc = "start"
    /\ IdleConfig /\ IdleNormalize /\ IdleArgs /\ IdleShared /\ IdleRun /\ IdleCollect

ReviveToIssue ==
    /\ issuePc = "start"
    /\ issue' = reviveToIssue(object)
    /\ issuePc' = "done"
    /\ UNCHANGED <<object, cfgVars, normVars, argVars, sharedVars, runVars, collVars>>

NextIssue == ReviveToIssue

SpecIssue == InitIssue /\ [][NextIssue]_vars

---------------------------------------------------------------------------
(* One invocation of analyzer.Run: runRevive and its formatting goroutine *)

\* The settings of an invocation: none, a confidence and a rule severity, and
\* arguments the TOML encoder refuses.
RunSettingsSet ==
    { ZeroSettings,
      [ZeroSettings EXCEPT
         !.Confidence = 5,
         !.Rules = << [Name |-> "VarNamingRule", Severity |-> SeverityError,
                       Arguments |-> <<>>, Disabled |-> FALSE] >>],
      [ZeroSettings EXCEPT
         !.Rules = << [Name |-> "CyclomaticRule", Severity |-> "",
                       Arguments |-> <<Scalar("a"),
                                       AnyMap({<<StrKey("k1"), "v">>})>>,
                       Disabled |-> FALSE] >>] }

\* the failures of the engine: below, at and above the thresholds 0.5 and 0.8
RunFailures ==
    { [RuleName |-> rn, Confidence |-> c[1], Failure |-> c[2],
       Position |-> [Start |-> [Filename |-> "a.go", Line |-> 1,
                                Column |-> 1, Offset |-> 0],
                     End   |-> [Filename |-> "a.go", Line |-> 2,
                                Column |-> 7, Offset |-> 40]]] :
      rn \in {"ExportedRule", "VarNamingRule"},
      c \in {<<3, "low">>, <<5, "mid">>, <<8, "high">>} }

\* severity(config, failure) of the formatter: "error" when the failure's
\* rule is configured with that severity, "warning" otherwise
formatSeverity(c, x) ==
    IF x.RuleName \in DOMAIN c.Rules.m
       /\ c.Rules.m[x.RuleName].Severity = SeverityError
    THEN SeverityError ELSE SeverityWarning

\* the jsonObject of a failure: its severity and, inline, its fields
toJsonObject(c, x) ==
    [Severity |-> formatSeverity(c, x), RuleName |-> x.RuleName,
     Failure |-> x.Failure, Confidence |-> x.Confidence,
     Position |-> x.Position]

\* json.Marshal of the formatter's slice: "null" for a nil slice, an array of
\* objects otherwise
jsonMarshal(c, xs) ==
    IF xs = <<>> THEN [kind |-> "null", items |-> <<>>]
    ELSE [kind |-> "array",
          items |-> [i \in 1..Len(xs) |-> toJsonObject(c, xs[i])]]

\* json.Unmarshal into results: the empty string is an error, "null" leaves
\* results nil
jsonUnmarshalFails(doc) == doc.kind = "empty"
jsonUnmarshal(doc) == IF doc.kind = "array" THEN doc.items ELSE <<>>

others == <<cfgVars, normVars, argVars, issueVars, collVars>>

Init ==
    /\ pc = "start"
    /\ runSettings \in RunSettingsSet
    /\ failures \in SeqsUpTo(RunFailures, MaxFailures)
    /\ conf = defaultConfig
    /\ idx = 0
    /\ f = NoFailure
    /\ err = ""
    /\ results = <<>>
    /\ ret = NoResult
    /\ runErr = ""
    /\ formatClosed = FALSE
    /\ fpc = "none"
    /\ received = <<>>
    /\ output = EmptyOutput
    /\ logged = <<>>
    /\ sent = <<>>
    /\ stageErrs = {}
    /\ IdleShared /\ IdleCollect
    /\ IdleConfig /\ IdleNormalize /\ IdleArgs /\ IdleIssue

\* return nil, err
ReturnError(stage) ==
    /\ err' = stage
    /\ ret' = [issues |-> <<>>, err |-> stage]
    /\ stageErrs' = stageErrs \cup {stage}
    /\ pc' = "returned"

\* conf, err := getReviveConfig(settings)
GetConfig ==
    /\ pc = "start"
    /\ LET r == getReviveConfig(runSettings)
       IN  CASE r.status = "ok" ->
                  /\ conf' = r.conf
                  /\ pc' = "getFormatter"
                  /\ UNCHANGED <<err, ret, stageErrs>>
             [] r.status = "error" ->
                  /\ ReturnError("config")
                  /\ UNCHANGED conf
             [] OTHER ->
                  /\ pc' = "panicked"
                  /\ UNCHANGED <<conf, err, ret, stageErrs>>
    /\ UNCHANGED <<runSettings, failures, idx, f, results, runErr,
                   formatClosed, fpc, received, output, logged, sent>>
    /\ UNCHANGED <<sharedVars, others>>

\* formatter, err := reviveConfig.GetFormatter("json")
GetFormatter ==
    /\ pc = "getFormatter"
    /\ \E ok \in BOOLEAN :
         IF ok THEN /\ pc' = "getLintingRules"
                    /\ UNCHANGED <<err, ret, stageErrs>>
         ELSE ReturnError("formatter")
    /\ UNCHANGED <<runSettings, conf, failures, idx, f, results, runErr,
                   formatClosed, fpc, received, output, logged, sent>>
    /\ UNCHANGED <<sharedVars, others>>

\* lintingRules, err := reviveConfig.GetLintingRules(conf, []lint.Rule{})
GetLintingRules ==
    /\ pc = "getLintingRules"
    /\ \E ok \in BOOLEAN :
         IF ok THEN /\ pc' = "lint"
                    /\ UNCHANGED <<err, ret, stageErrs>>
         ELSE ReturnError("rules")
    /\ UNCHANGED <<runSettings, conf, failures, idx, f, results, runErr,
                   formatClosed, fpc, received, output, logged, sent>>
    /\ UNCHANGED <<sharedVars, others>>

\* failures, err := revive.Lint(packages, lintingRules, *conf)
Lint ==
    /\ pc = "lint"
    /\ \E ok \in BOOLEAN :
         IF ok THEN /\ pc' = "spawn"
                    /\ UNCHANGED <<err, ret, stageErrs>>
         ELSE ReturnError("engine")
    /\ UNCHANGED <<runSettings, conf, failures, idx, f, results, runErr,
                   formatClosed, fpc, received, output, logged, sent>>
    /\ UNCHANGED <<sharedVars, others>>

\* formatChan and exitChan are made and the formatting goroutine is started:
\* it is in formatter.Format, ranging over formatChan
Spawn ==
    /\ pc = "spawn"
    /\ fpc' = "ranging"
    /\ pc' = "range"
    /\ UNCHANGED <<runSettings, conf, failures, idx, f, err, results, ret,
                   runErr, formatClosed, received, output, logged, sent,
                   stageErrs>>
    /\ UNCHANGED <<sharedVars, others>>

\* a slip of the filter: a failure at the threshold is dropped too
RangeFailuresDropEqual ==
    /\ pc = "range"
    /\ IF idx = Len(failures)
       THEN /\ pc' = "close"
            /\ UNCHANGED <<idx, f>>
       ELSE /\ idx' = idx + 1
            /\ f' = failures[idx + 1]
            /\ pc' = IF failures[idx + 1].Confidence <= conf.Confidence
                     THEN "range" ELSE "send"
    /\ UNCHANGED <<runSettings, conf, failures, err, results, ret, runErr,
                   formatClosed, fpc, received, output, logged, sent,
                   stageErrs>>
    /\ UNCHANGED <<sharedVars, others>>

\* for f := range failures: the next failure is dropped when its confidence
\* is below the threshold, and is to be sent otherwise; the loop ends with
\* the stream
RangeFailures ==
    /\ pc = "range"
    /\ IF idx = Len(failures)
       THEN /\ pc' = "close"
            /\ UNCHANGED <<idx, f>>
       ELSE /\ idx' = idx + 1
            /\ f' = failures[idx + 1]
            /\ pc' = IF failures[idx + 1].Confidence < conf.Confidence
                     THEN "range" ELSE "send"
    /\ UNCHANGED <<runSettings, conf, failures, err, results, ret, runErr,
                   formatClosed, fpc, received, output, logged, sent,
                   stageErrs>>
    /\ UNCHANGED <<sharedVars, others>>

\* formatChan <- f, on an unbuffered channel: the send completes together
\* with a receive of the formatter's range loop
SendFormatChan ==
    /\ pc = "send"
    /\ fpc = "ranging"
    /\ received' = Append(received, f)
    /\ sent' = Append(sent, f)
    /\ pc' = "range"
    /\ UNCHANGED <<runSettings, conf, failures, idx, f, err, results, ret,
                   runErr, formatClosed, fpc, output, logged, stageErrs>>
    /\ UNCHANGED <<sharedVars, others>>

\* close(formatChan)
CloseFormatChan ==
    /\ pc = "close"
    /\ formatClosed' = TRUE
    /\ pc' = "waitExit"
    /\ UNCHANGED <<runSettings, conf, failures, idx, f, err, results, ret,
                   runErr, fpc, received, output, logged, sent, stageErrs>>
    /\ UNCHANGED <<sharedVars, others>>

\* output, err = formatter.Format(formatChan, *conf), for a formatter that
\* ranges over its channel until it is closed: it returns the marshalled
\* objects, or the empty string and the error of json.Marshal
FormatReturns ==
    /\ fpc = "ranging"
    /\ formatClosed
    /\ \E ok \in BOOLEAN :
         IF ok THEN /\ output' = jsonMarshal(conf, received)
                    /\ err' = ""
                    /\ fpc' = "signal"
                    /\ UNCHANGED stageErrs
         ELSE /\ output' = EmptyOutput
              /\ err' = "format"
              /\ fpc' = "log"
              /\ stageErrs' = stageErrs \cup {"format"}
    /\ UNCHANGED <<pc, runSettings, conf, failures, idx, f, results, ret,
                   runErr, formatClosed, received, logged, sent>>
    /\ UNCHANGED <<sharedVars, others>>

\* output, err = formatter.Format(formatChan, *conf), for a formatter that
\* returns with an error before its channel is closed
FormatReturnsEarly ==
    /\ fpc = "ranging"
    /\ ~formatClosed
    /\ output' = EmptyOutput
    /\ err' = "format"
    /\ fpc' = "log"
    /\ stageErrs' = stageErrs \cup {"format"}
    /\ UNCHANGED <<pc, runSettings, conf, failures, idx, f, results, ret,
                   runErr, formatClosed, received, logged, sent>>
    /\ UNCHANGED <<sharedVars, others>>

\* lintCtx.Log.Errorf("Format error: %v", err)
LogFormatError ==
    /\ fpc = "log"
    /\ logged' = Append(logged, err)
    /\ fpc' = "signal"
    /\ UNCHANGED <<pc, runSettings, conf, failures, idx, f, err, results,
                   ret, runErr, formatClosed, received, output, sent,
                   stageErrs>>
    /\ UNCHANGED <<sharedVars, others>>

\* a slip of the wait: the main goroutine goes on without the signal
ExitSignalNoWait ==
    /\ pc = "waitExit"
    /\ fpc' = IF fpc = "signal" THEN "exited" ELSE fpc
    /\ pc' = "unmarshal"
    /\ UNCHANGED <<runSettings, conf, failures, idx, f, err, results, ret,
                   runErr, formatClosed, received, output, logged, sent,
                   stageErrs>>
    /\ UNCHANGED <<sharedVars, others>>

\* exitChan <- true in the goroutine together with <-exitChan in runRevive,
\* on an unbuffered channel
ExitSignal ==
    /\ pc = "waitExit"
    /\ fpc = "signal"
    /\ fpc' = "exited"
    /\ pc' = "unmarshal"
    /\ UNCHANGED <<runSettings, conf, failures, idx, f, err, results, ret,
                   runErr, formatClosed, received, output, logged, sent,
                   stageErrs>>
    /\ UNCHANGED <<sharedVars, others>>

\* a slip of the decoding: the error of json.Unmarshal is dropped
UnmarshalErrorDropped ==
    /\ pc = "unmarshal"
    /\ results' = jsonUnmarshal(output)
    /\ err' = ""
    /\ pc' = "convert"
    /\ stageErrs' = IF jsonUnmarshalFails(output)
                    THEN stageErrs \cup {"decode"} ELSE stageErrs
    /\ UNCHANGED <<runSettings, conf, failures, idx, f, ret, runErr,
                   formatClosed, fpc, received, output, logged, sent>>
    /\ UNCHANGED <<sharedVars, others>>

\* err = json.Unmarshal([]byte(output), &results)
Unmarshal ==
    /\ pc = "unmarshal"
    /\ IF jsonUnmarshalFails(output)
       THEN /\ ReturnError("decode")
            /\ UNCHANGED results
       ELSE /\ results' = jsonUnmarshal(output)
            /\ err' = ""
            /\ pc' = "convert"
            /\ UNCHANGED <<ret, stageErrs>>
    /\ UNCHANGED <<runSettings, conf, failures, idx, f, runErr,
                   formatClosed, fpc, received, output, logged, sent>>
    /\ UNCHANGED <<sharedVars, others>>

\* the loop over results and return issues, nil
Convert ==
    /\ pc = "convert"
    /\ ret' = [issues |-> [i \in 1..Len(results) |-> reviveToIssue(results[i])],
               err |-> ""]
    /\ pc' = "returned"
    /\ UNCHANGED <<runSettings, conf, failures, idx, f, err, results, runErr,
                   formatClosed, fpc, received, output, logged, sent,
                   stageErrs>>
    /\ UNCHANGED <<sharedVars, others>>

\* analyzer.Run after runRevive: the error is returned, no issue ends the
\* invocation, issues are to be appended under mu
CheckResult ==
    /\ pc = "returned"
    /\ IF ret.err # ""
       THEN /\ runErr' = ret.err
            /\ pc' = "done"
       ELSE /\ UNCHANGED runErr
            /\ pc' = IF Len(ret.issues) = 0 THEN "done" ELSE "lock"
    /\ UNCHANGED <<runSettings, conf, failures, idx, f, err, results, ret,
                   formatClosed, fpc, received, output, logged, sent,
                   stageErrs>>
    /\ UNCHANGED <<sharedVars, others>>

\* mu.Lock()
Lock ==
    /\ pc = "lock"
    /\ mu = "unlocked"
    /\ mu' = "locked"
    /\ pc' = "append"
    /\ UNCHANGED <<resIssues, runSettings, conf, failures, idx, f, err,
                   results, ret, runErr, formatClosed, fpc, received, output,
                   logged, sent, stageErrs>>
    /\ UNCHANGED others

\* resIssues = append(resIssues, issues...)
AppendIssues ==
    /\ pc = "append"
    /\ resIssues' = resIssues \o ret.issues
    /\ pc' = "unlock"
    /\ UNCHANGED <<mu, runSettings, conf, failures, idx, f, err, results,
                   ret, runErr, formatClosed, fpc, received, output, logged,
                   sent, stageErrs>>
    /\ UNCHANGED others

\* mu.Unlock() and return nil, nil
Unlock ==
    /\ pc = "unlock"
    /\ mu' = "unlocked"
    /\ pc' = "done"
    /\ UNCHANGED <<resIssues, runSettings, conf, failures, idx, f, err,
                   results, ret, runErr, formatClosed, fpc, received, output,
                   logged, sent, stageErrs>>
    /\ UNCHANGED others

Next ==
    \/ GetConfig \/ GetFormatter \/ GetLintingRules \/ Lint \/ Spawn
    \/ RangeFailures \/ SendFormatChan \/ CloseFormatChan
    \/ FormatReturns \/ FormatReturnsEarly \/ LogFormatError \/ ExitSignal
    \/ Unmarshal \/ Convert \/ CheckResult \/ Lock \/ AppendIssues \/ Unlock

Spec == Init /\ [][Next]_vars

\* Go schedules every goroutine that can run: no step that stays possible is
\* put off forever
FairSpec == Spec /\ WF_vars(Next)

---------------------------------------------------------------------------
(* Concurrent invocations of analyzer.Run on one linter *)

\* The k-th issue of invocation i: the issue of a failure at line k of the
\* file of the package that invocation analyses.
issueOf(i, k) ==
    reviveToIssue(
        [Severity |-> SeverityWarning, RuleName |-> "VarNamingRule",
         Failure |-> "msg", Confidence |-> 10,
         Position |-> [Start |-> [Filename |-> ToString(i), Line |-> k,
                                  Column |-> 1, Offset |-> 0],
                       End   |-> [Filename |-> ToString(i), Line |-> k,
                                  Column |-> 7, Offset |-> 40]]])

issuesOf(i, n) == [k \in 1..n |-> issueOf(i, k)]

InitCollect ==
    /\ apc = [i \in Invocations |-> "start"]
    /\ runIssues = [i \in Invocations |-> <<>>]
    /\ appendRead = [i \in Invocations |-> <<>>]
    /\ reported = <<>>
    /\ IdleShared /\ IdleRun
    /\ IdleConfig /\ IdleNormalize /\ IdleArgs /\ IdleIssue

notCollect == <<cfgVars, normVars, argVars, issueVars, runVars>>

\* issues, err := runRevive(lintCtx, pass, settings) and the two early
\* returns.  runRevive works on its own locals only: for the other
\* invocations it is its result, an error or a list of issues.
RunAnalyzer(i) ==
    /\ apc[i] = "start"
    /\ \/ /\ apc' = [apc EXCEPT ![i] = "failed"]
          /\ UNCHANGED runIssues
       \/ \E n \in 0..MaxIssues :
            /\ runIssues' = [runIssues EXCEPT ![i] = issuesOf(i, n)]
            /\ apc' = [apc EXCEPT ![i] = IF n = 0 THEN "done" ELSE "lock"]
    /\ UNCHANGED <<appendRead, reported, sharedVars, notCollect>>

\* a slip of the locking: the lock is taken whether it is held or not
LockMuNoExclusion(i) ==
    /\ apc[i] = "lock"
    /\ mu' = "locked"
    /\ apc' = [apc EXCEPT ![i] = "read"]
    /\ UNCHANGED <<resIssues, runIssues, appendRead, reported, notCollect>>

\* mu.Lock()
LockMu(i) ==
    /\ apc[i] = "lock"
    /\ mu = "unlocked"
    /\ mu' = "locked"
    /\ apc' = [apc EXCEPT ![i] = "read"]
    /\ UNCHANGED <<resIssues, runIssues, appendRead, reported, notCollect>>

\* append(resIssues, issues...): the slice is read ...
ReadResIssues(i) ==
    /\ apc[i] = "read"
    /\ appendRead' = [appendRead EXCEPT ![i] = resIssues]
    /\ apc' = [apc EXCEPT ![i] = "write"]
    /\ UNCHANGED <<runIssues, reported, sharedVars, notCollect>>

\* ... and resIssues = the slice read, followed by the issues
WriteResIssues(i) ==
    /\ apc[i] = "write"
    /\ resIssues' = appendRead[i] \o runIssues[i]
    /\ apc' = [apc EXCEPT ![i] = "unlock"]
    /\ UNCHANGED <<mu, runIssues, appendRead, reported, notCollect>>

\* mu.Unlock() and return nil, nil
UnlockMu(i) ==
    /\ apc[i] = "unlock"
    /\ mu' = "unlocked"
    /\ apc' = [apc EXCEPT ![i] = "done"]
    /\ UNCHANGED <<resIssues, runIssues, appendRead, reported, notCollect>>

AllCompleted == \A i \in Invocations : apc[i] \in {"done", "failed"}

\* the issues reporter, which the host calls after the invocations: return
\* resIssues
IssuesReporter ==
    /\ AllCompleted
    /\ reported' = resIssues
    /\ apc' = [i \in Invocations |-> "reported"]
    /\ UNCHANGED <<runIssues, appendRead, sharedVars, notCollect>>

NextCollect ==
    \/ \E i \in Invocations :
         \/ RunAnalyzer(i) \/ LockMu(i) \/ ReadResIssues(i)
         \/ WriteResIssues(i) \/ UnlockMu(i)
    \/ IssuesReporter

SpecCollect == InitCollect /\ [][NextCollect]_vars

\* how many times issue x is in list xs
Occurrences(xs, x) == Cardinality({j \in 1..Len(xs) : xs[j] = x})

RECURSIVE TotalIssues(_)
TotalIssues(n) == IF n = 0 THEN 0 ELSE Len(runIssues[n]) + TotalIssues(n - 1)

HasReported == \A i \in Invocations : apc[i] = "reported"

\* C1: after all the concurrent invocations have completed, the list the
\* issues reporter returns holds every issue of every invocation exactly
\* once and nothing else: N invocations of M issues each give N*M issues.
C1_NoIssueLostOrDuplicated ==
    HasReported =>
        /\ \A i \in Invocations : \A k \in 1..Len(runIssues[i]) :
             Occurrences(reported, runIssues[i][k]) = 1
        /\ Len(reported) = TotalIssues(NumInvocations)
        /\ \A m \in 1..MaxIssues :
             (\A i \in Invocations : Len(runIssues[i]) = m) =>
                 Len(reported) = NumInvocations * m

\* every invocation returned the same number M >= 2 of issues and the
\* reporter has returned the list
C1_Witness ==
    /\ HasReported
    /\ \A i \in Invocations : Len(runIssues[i]) = MaxIssues
    /\ Len(reported) = NumInvocations * MaxIssues

---------------------------------------------------------------------------
(* Properties of one invocation *)

\* the failures of the stream whose confidence is at or above the threshold
\* of configuration c, in the order of the stream
Passing(fs, c) == SelectSeq(fs, LAMBDA x : x.Confidence >= c.Confidence)

\* runRevive has returned without error
ReturnedOk ==
    /\ pc \in {"returned", "lock", "append", "unlock", "done"}
    /\ ret.err = ""

\* C2: a failure whose confidence is below the threshold of the resolved
\* configuration is never sent to the formatter and is no issue of the
\* returned list; when runRevive returns without error every failure at or
\* above the threshold has been sent and has its issue in the list, in the
\* order of the stream.
C2_ConfidenceFilter ==
    /\ \A i \in 1..Len(sent) : ~(sent[i].Confidence < conf.Confidence)
    /\ \A i \in 1..Len(received) : ~(received[i].Confidence < conf.Confidence)
    /\ ReturnedOk =>
         LET p == Passing(failures, conf)
         IN  /\ sent = p
             /\ Len(ret.issues) = Len(p)
             /\ \A i \in 1..Len(p) :
                  ret.issues[i].Text = <<p[i].RuleName, ": ", p[i].Failure>>

\* an invocation with threshold 0.5 ended without error on a stream with a
\* failure below the threshold and a failure at the threshold
C2_Witness ==
    /\ pc = "done" /\ runErr = ""
    /\ conf.Confidence = 5
    /\ \E i, j \in 1..Len(failures) :
         failures[i].Confidence = 3 /\ failures[j].Confidence = 5
    /\ Len(resIssues) = 1

\* C3: once a stage has reported an error (the configuration, the formatter
\* lookup, the linting rules, the engine, the formatting stage or the
\* decoding), the invocation returns an error and no issue, and nothing is
\* appended to resIssues.
C3_ErrorsAbort ==
    stageErrs # {} =>
        /\ resIssues = <<>>
        /\ pc \notin {"convert", "lock", "append", "unlock"}
        /\ pc = "returned" => ret.err # "" /\ ret.issues = <<>>
        /\ pc = "done" => runErr # "" /\ ret.issues = <<>>

\* the formatting stage reported an error after failures were sent to it,
\* and the invocation has ended
C3_Witness ==
    /\ pc = "done"
    /\ "format" \in stageErrs
    /\ Len(sent) >= 1

\* C9: formatChan is closed only after every failure that passed the filter
\* has been sent on it, and the output is decoded only after the formatting
\* goroutine has written it and signalled on exitChan.
C9_CloseAndReadOrder ==
    /\ formatClosed => sent = Passing(failures, conf)
    /\ pc \in {"unmarshal", "convert"} => fpc = "exited"
    /\ fpc = "ranging" => pc \in {"range", "send", "close", "waitExit"}

\* the main goroutine is about to decode the output of a formatter that
\* received some failures of the stream while the filter dropped others
C9_Witness ==
    /\ pc = "unmarshal"
    /\ output.kind = "array"
    /\ Len(sent) >= 1
    /\ Len(sent) < Len(failures)

---------------------------------------------------------------------------
(* Properties of the configuration *)

\* C4: normalizeConfig is idempotent: whatever the configuration it is first
\* applied to, a second application (and any later one) leaves the
\* configuration exactly as the previous application left it.
C4_NormalizeIdempotent ==
    passes >= 2 => cfg = prevCfg

\* normalizeConfig was applied twice to a configuration with enable-all-rules
\* set, a rule outside the catalogue and a directive
C4_Witness ==
    /\ passes = 2
    /\ cfg.EnableAllRules
    /\ "no-such-rule" \in DOMAIN cfg.Rules.m
    /\ DOMAIN cfg.Directives.m # {}
    /\ cfg.Confidence = defaultConfidence

\* the index of the override that decides the entry of its rule name: the
\* last one of that name
IsLastOverride(rs, i) ==
    \A j \in (i + 1)..Len(rs) : rs[j].Name # rs[i].Name

\* what an argument list holds, whatever the Go type of its maps
ArgContent(r) == [i \in 1..Len(r) |-> [v |-> r[i].v, entries |-> r[i].entries]]

\* C5: with enable-all-rules set, the configuration getReviveConfig returns
\* has an entry for every rule of the full catalogue; an explicitly
\* configured rule keeps its severity, arguments and disabled flag (an unset
\* severity is the global one), and every rule that is not configured has
\* the global severity.
C5_EnableAllKeepsOverrides ==
    (cfgPc = "done" /\ confRes.status = "ok" /\ settings.EnableAllRules) =>
        LET rc     == confRes.conf
            global == IF settings.Severity = "" THEN SeverityWarning
                      ELSE settings.Severity
            named  == {settings.Rules[i].Name : i \in 1..Len(settings.Rules)}
        IN  /\ rc.Severity = global
            /\ Range(allRules) \subseteq DOMAIN rc.Rules.m
            /\ \A i \in 1..Len(settings.Rules) :
                 IsLastOverride(settings.Rules, i) =>
                   LET o == settings.Rules[i]
                       e == rc.Rules.m[o.Name]
                   IN  /\ e.Severity = IF o.Severity = "" THEN global
                                       ELSE o.Severity
                       /\ ArgContent(e.Arguments) = ArgContent(o.Arguments)
                       /\ e.Disabled = o.Disabled
            /\ \A n \in Range(allRules) \ named :
                 rc.Rules.m[n].Severity = global

\* a configuration was returned for settings with enable-all-rules and an
\* override of a catalogue rule with its own severity, arguments and flag
C5_Witness ==
    /\ cfgPc = "done" /\ confRes.status = "ok"
    /\ settings.EnableAllRules
    /\ settings.Severity = ""
    /\ \E i \in 1..Len(settings.Rules) :
         /\ settings.Rules[i].Name = "CyclomaticRule"
         /\ settings.Rules[i].Severity = SeverityError
         /\ settings.Rules[i].Disabled
         /\ settings.Rules[i].Arguments # <<>>
         /\ IsLastOverride(settings.Rules, i)

\* C6: for the all-zero Settings getReviveConfig returns confidence 0.8,
\* severity "warning" and exactly the rules of the default catalogue, each
\* with severity "warning".
C6_ZeroSettingsDefaults ==
    (cfgPc = "done" /\ settings = ZeroSettings) =>
        /\ confRes.status = "ok"
        /\ confRes.conf.Confidence = 8
        /\ confRes.conf.Severity = "warning"
        /\ DOMAIN confRes.conf.Rules.m = Range(defaultRules)
        /\ \A n \in DOMAIN confRes.conf.Rules.m :
             confRes.conf.Rules.m[n].Severity = "warning"

\* getReviveConfig has returned for the all-zero Settings
C6_Witness ==
    /\ cfgPc = "done"
    /\ settings = ZeroSettings
    /\ Cardinality(DOMAIN confRes.conf.Rules.m) = Len(defaultRules)

---------------------------------------------------------------------------
(* Properties of safeTomlSlice *)

\* some map of the argument list has a key that is not a string
HasNonStringKey(r) ==
    \E i \in 1..Len(r) : \E e \in r[i].entries : e[1].t # "string"

\* safeTomlSlice and createConfigMap have no error result: no step of the
\* program returns an InvalidArgumentKind error value
ReturnedInvalidArgumentKind == argsPc = "error"

\* C7: an argument list with a map entry whose key is not a string makes the
\* mapping fail with an InvalidArgumentKind error value returned to the
\* caller; an argument list whose map entries all have string keys is mapped
\* to a list with the same entries, keys and values, in the same order.
C7_ArgumentKeyCoercion ==
    argsPc # "start" =>
        /\ HasNonStringKey(args) => ReturnedInvalidArgumentKind
        /\ ~HasNonStringKey(args) =>
             /\ argsPc = "returned"
             /\ ArgContent(argsRes.val) = ArgContent(args)

---------------------------------------------------------------------------
(* Properties of reviveToIssue *)

\* C8: the issue's line range is [s, s] for a failure of the exported rule
\* and [s, e] for a failure of any other rule, s and e being the failure's
\* start and end lines; the issue's position is the failure's start position.
C8_LineRangeAndPosition ==
    issuePc = "done" =>
        /\ issue.LineRange.From = object.Position.Start.Line
        /\ object.RuleName = ExportedRuleName =>
             issue.LineRange.To = object.Position.Start.Line
        /\ object.RuleName # ExportedRuleName =>
             issue.LineRange.To = object.Position.End.Line
        /\ issue.Pos = object.Position.Start

\* a failure of the exported rule spanning several lines was converted
C8_Witness ==
    /\ issuePc = "done"
    /\ object.RuleName = ExportedRuleName
    /\ object.Position.Start.Line < object.Position.End.Line
    /\ object.Position.Start.Column # object.Position.End.Column

=============================================================================
